---- MODULE Spec2Model ----
(***************************************************************************)
(* A model of the Val valuation pipeline.                                  *)
(*                                                                         *)
(* Part I models the Go pipeline: the adapter registry (adapter.go), the   *)
(* mock adapter, pipeline.Run and splitCSV (run.go), strategies.Eval and   *)
(* ConsoleSink.Publish.  That pipeline runs one adapter, one strategy and  *)
(* one sink.                                                               *)
(*                                                                         *)
(* Part II models the stages the README documents and whose code is not    *)
(* among the Go sources (the merge over several adapters, the weighting    *)
(* engine, the consensus over several strategies, the fan-out to several   *)
(* sinks) from the specification, sections 4.3, 4.5, 4.6 and 4.7.  Each    *)
(* has a specification of its own.                                         *)
(*                                                                         *)
(* Go strings that the code parses are sequences of one-character strings; *)
(* a float64 is an integer number of hundredths (0.14 is 14); a quotient   *)
(* of two floats is kept exact as a fraction [n, d].                       *)
(***************************************************************************)
EXTENDS Integers, Sequences, FiniteSets, TLC

VARIABLES
    registry,   \* adapters.registry: adapter name -> adapter
    pc,         \* position of pipeline.Run
    opts,       \* the Options fields Run has read so far
    tickers,    \* Run's tickers
    fetchErr,   \* the error ad.Fetch returned: "" before the call, "nil", "error"
    raw,        \* Run's raw: the rows the adapter returned
    evalErr,    \* the error Eval returned: "" before the call, "nil", or the error
    evals,      \* Run's evals: the results Eval returned
    final,      \* Run's final
    ret,        \* the error Run returned
    request,    \* the evalRequest Eval built
    post,       \* what the strategy service call of Eval came to
    calls,      \* the calls Run has made, in order
    published,  \* the calls of sink.Publish made, each with its items
    console,    \* the lines ConsoleSink.Publish printed
    \* Part II: the fundamentals merge
    mPriority,  \* the adapter names, highest priority first
    mLists,     \* ticker -> its RawRecords in adapter-priority order
    mWalked,    \* ticker -> how many of its RawRecords the merge has walked
    mMerged,    \* ticker -> its MergedRecord: field -> [value, source]
    \* Part II: the weighting engine, for one ticker
    wCfg,       \* the weighting options of the run configuration
    wIn,        \* the ticker's fundamentals: net_margin, growth, eps (<<>>: absent)
    wPart,      \* the strategies with a non-declined result for the ticker
    wStep,      \* how many rules of the table have been evaluated
    wRaw,       \* the running weights: growth-sensitive and others
    wNorm,      \* strategy -> its normalised weight, once step 4 is done
    \* Part II: the consensus aggregator
    cCfg,       \* the run configuration: strategies, aggregation mode, MoS threshold
    cPrice,     \* ticker -> price
    cResults,   \* ticker -> strategy -> its fair value (<<>>: declined)
    cRaw,       \* ticker -> the weights of the weighting engine, before normalisation
    cDone,      \* the tickers aggregated
    cRecords,   \* ticker -> <<its ConsensusRecord>>, or <<>>
    cGaps,      \* the tickers reported as evaluation gaps
    \* Part II: the sink fan-out
    fSinks,     \* the configured sinks
    fRecords,   \* the final sequence of records
    fState,     \* sink -> "pending", "ok" or "failed"
    fReceived,  \* sink -> <<the records it was invoked with>>, or <<>>
    fErrors,    \* the errors recorded
    \* the registry driven by a given sequence of Register calls
    rCalls,     \* the adapters to register, in order
    rDone,      \* the number of them registered
    \* splitCSV applied to a given string
    csvIn,      \* the string
    csvOut      \* <<the tickers splitCSV returned>>, or <<>> before the call

goVars == <<registry, pc, opts, tickers, fetchErr, raw, evalErr, evals, final, ret,
            request, post, calls, published, console>>

mergeVars == <<mPriority, mLists, mWalked, mMerged>>

weightVars == <<wCfg, wIn, wPart, wStep, wRaw, wNorm>>

consensusVars == <<cCfg, cPrice, cResults, cRaw, cDone, cRecords, cGaps>>

fanVars == <<fSinks, fRecords, fState, fReceived, fErrors>>

smVars == <<mergeVars, weightVars, consensusVars, fanVars>>

regVars == <<rCalls, rDone>>

splitVars == <<csvIn, csvOut>>

vars == <<goVars, smVars, regVars, splitVars>>

(***************************************************************************)
(* Bounds                                                                  *)
(***************************************************************************)
MaxCSV == 3      \* longest TickersCSV
MaxRows == 2     \* most rows an adapter other than mock returns
MaxEvals == 2    \* most items in the strategy service's response

SeqsUpTo(S, n) == UNION {[1..k -> S] : k \in 0..n}

(***************************************************************************)
(* Values of type any, and the two type assertions Run and Eval use        *)
(***************************************************************************)
Str(s) == [t |-> "string", s |-> s]
Flt(f) == [t |-> "float64", f |-> f]

\* v, _ := r[k].(string)
AsString(r, k) == IF k \in DOMAIN r /\ r[k].t = "string" THEN r[k].s ELSE <<>>

\* v, _ := r[k].(float64)
AsFloat(r, k) == IF k \in DOMAIN r /\ r[k].t = "float64" THEN r[k].f ELSE 0

(***************************************************************************)
(* splitCSV                                                                *)
(***************************************************************************)
Chars == {"A", ",", " "}

RECURSIVE Split(_, _)
Split(s, sep) ==
    IF \A i \in 1..Len(s) : s[i] # sep
    THEN <<s>>
    ELSE LET i == CHOOSE k \in 1..Len(s) : s[k] = sep /\ \A j \in 1..(k - 1) : s[j] # sep
         IN  <<SubSeq(s, 1, i - 1)>> \o Split(SubSeq(s, i + 1, Len(s)), sep)

RECURSIVE TrimLeft(_)
TrimLeft(p) == IF Len(p) > 0 /\ p[1] = " " THEN TrimLeft(Tail(p)) ELSE p

RECURSIVE TrimRight(_)
TrimRight(p) == IF Len(p) > 0 /\ p[Len(p)] = " " THEN TrimRight(SubSeq(p, 1, Len(p) - 1)) ELSE p

TrimSpace(p) == TrimRight(TrimLeft(p))

\* the parts trimmed, the empty ones kept
KeepEveryPart(parts) == [i \in DOMAIN parts |-> TrimSpace(parts[i])]

RECURSIVE KeepNonEmpty(_)
KeepNonEmpty(parts) ==
    IF parts = <<>> THEN <<>>
    ELSE LET p == TrimSpace(Head(parts))
         IN  (IF Len(p) > 0 THEN <<p>> ELSE <<>>) \o KeepNonEmpty(Tail(parts))

splitCSV(s) == IF Len(s) = 0 THEN <<>> ELSE KeepNonEmpty(Split(s, ","))

(***************************************************************************)
(* The adapters.  mock is the adapter init() registers; alt stands for any *)
(* other implementation of the Adapter interface, whose Fetch may return   *)
(* any rows or an error; alt2 is a third one, whose Name() is that of alt  *)
(* and whose Fetch returns an error.                                       *)
(***************************************************************************)
Adapters == {"mock", "alt", "alt2"}

AdapterName(a) == IF a = "alt2" THEN "alt" ELSE a

\* round(v, p) of a float given in hundredths: math.Round rounds half away
\* from zero
round(v, p) ==
    LET unit == IF p >= 2 THEN 1 ELSE IF p = 1 THEN 10 ELSE 100
    IN  IF v >= 0 THEN ((2 * v + unit) \div (2 * unit)) * unit
        ELSE -(((2 * (-v) + unit) \div (2 * unit)) * unit)

mockRow(t) ==
    LET base == Len(t) * 7 + 15
        eps == base * 10 + 80
        growth == 12
        price == base * 170
    IN  [ticker |-> Str(t), price |-> Flt(round(price, 2)),
         eps_ttm |-> Flt(round(eps, 3)), growth_5y_est |-> Flt(round(growth, 3))]

mockFetch(ts) == [i \in 1..Len(ts) |-> mockRow(ts[i])]

AltPrice == Flt(9000)

\* the rows alt returns: with and without a price, with and without a ticker
AltRows ==
    {[ticker |-> Str(<<"A">>), price |-> AltPrice],
     [ticker |-> Str(<<"A", "A">>), price |-> AltPrice],
     [ticker |-> Str(<<"A">>)],
     [price |-> AltPrice]}

\* The outcomes of ad.Fetch(tickers): [err, rows]
FetchOutcomes(a, ts) ==
    IF a = "mock"
    THEN {[err |-> FALSE, rows |-> mockFetch(ts)]}
    ELSE IF a = "alt"
    THEN {[err |-> TRUE, rows |-> <<>>]}
         \cup {[err |-> FALSE, rows |-> rs] : rs \in SeqsUpTo(AltRows, MaxRows)}
    ELSE {[err |-> TRUE, rows |-> <<>>]}

(***************************************************************************)
(* strategies.Eval                                                         *)
(***************************************************************************)
Strategies == {"peter_lynch"}
StatusCodes == {101, 200, 500}
RespItem(t, fv) == [ticker |-> t, fair_value |-> fv, notes |-> "ok", conf |-> 50]

\* the items of a response: fair values below, at and above zero
RespItems ==
    {RespItem(<<"A">>, -1000), RespItem(<<"A">>, 6000),
     RespItem(<<"A", "A">>, 0), RespItem(<<"A", "A">>, 6000)}

NoPost == [err |-> FALSE, timeout |-> FALSE, status |-> 0, decodes |-> FALSE, items |-> <<>>]

\* the bodies tried with a status: every one up to MaxEvals items with 200,
\* and up to one item with the other statuses
Bodies(status) == SeqsUpTo(RespItems, IF status = 200 THEN MaxEvals ELSE 1)

\* What httpClient.Post and the decoding of the body can come to: a transport
\* error, which the 10 s Timeout of the client is one cause of, or a response
\* with a status and a body that decodes to items or not.
PostOutcomes ==
    {[err |-> TRUE, timeout |-> to, status |-> 0, decodes |-> FALSE, items |-> <<>>] :
        to \in BOOLEAN}
    \cup {[err |-> FALSE, timeout |-> FALSE, status |-> s, decodes |-> FALSE, items |-> <<>>] :
             s \in StatusCodes}
    \cup UNION {{[err |-> FALSE, timeout |-> FALSE, status |-> s, decodes |-> TRUE,
                  items |-> its] : its \in Bodies(s)} : s \in StatusCodes}

\* items that keep the ticker among the data and skip no row
RECURSIVE evalItemsOfEveryRow(_)
evalItemsOfEveryRow(rows) ==
    IF rows = <<>> THEN <<>>
    ELSE <<[Ticker |-> AsString(Head(rows), "ticker"), Data |-> Head(rows)]>>
         \o evalItemsOfEveryRow(Tail(rows))

RECURSIVE evalItems(_)
evalItems(rows) ==
    IF rows = <<>> THEN <<>>
    ELSE LET r == Head(rows)
             t == AsString(r, "ticker")
         IN  (IF Len(t) = 0 THEN <<>>
              ELSE <<[Ticker |-> t, Data |-> [k \in DOMAIN r \ {"ticker"} |-> r[k]]]>>)
             \o evalItems(Tail(rows))

evalRequest(strategy, rows) == [Strategy |-> strategy, Items |-> evalItems(rows)]

EvalResult(it) ==
    [Ticker |-> it.ticker, FairValue |-> it.fair_value, Notes |-> it.notes, Conf |-> it.conf]

\* Eval without the test of the status
EvalIgnoringStatus(strategy, rows, p) ==
    IF p.err THEN [err |-> "transport error", results |-> <<>>]
    ELSE IF ~p.decodes THEN [err |-> "decode error", results |-> <<>>]
    ELSE [err |-> "nil", results |-> [i \in 1..Len(p.items) |-> EvalResult(p.items[i])]]

\* Eval's return values once the request is posted with outcome p
Eval(strategy, rows, p) ==
    IF p.err THEN [err |-> "transport error", results |-> <<>>]
    ELSE IF p.status >= 300 THEN [err |-> "strategy service error", results |-> <<>>]
    ELSE IF ~p.decodes THEN [err |-> "decode error", results |-> <<>>]
    ELSE [err |-> "nil", results |-> [i \in 1..Len(p.items) |-> EvalResult(p.items[i])]]

(***************************************************************************)
(* pipeline.Run: the final rows                                            *)
(***************************************************************************)
\* the first result of a ticker, not the last
fairByTickerFirstWins(evs) ==
    [t \in {evs[i].Ticker : i \in DOMAIN evs} |->
        evs[CHOOSE i \in DOMAIN evs :
                evs[i].Ticker = t /\ \A j \in DOMAIN evs : j < i => evs[j].Ticker # t]]

\* for _, e := range evals { fairByTicker[e.Ticker] = e }
fairByTicker(evs) ==
    [t \in {evs[i].Ticker : i \in DOMAIN evs} |->
        evs[CHOOSE i \in DOMAIN evs :
                evs[i].Ticker = t /\ \A j \in DOMAIN evs : j > i => evs[j].Ticker # t]]

\* the maps a loop that met the results in any order could build
fairByTickerBuildsAnyOrder(evs) ==
    {m \in [{evs[i].Ticker : i \in DOMAIN evs} -> {evs[i] : i \in DOMAIN evs}] :
        \A t \in DOMAIN m : m[t].Ticker = t}

\* the maps the loop of run.go 35-38 can build: it ranges over a slice, in
\* order, so there is one
fairByTickerBuilds(evs) == {fairByTicker(evs)}

\* a quotient of two floats, kept exact
Rat(n, d) == [n |-> n, d |-> d]

\* the margin of safety without the guard on the fair value
MosOfUnguarded(fv, price) == Rat(fv - price, fv)

MosOf(fv, price) == IF fv > 0 THEN Rat(fv - price, fv) ELSE Rat(0, 1)

finalRow(r, ev, strategy) ==
    LET price == AsFloat(r, "price")
        fv == ev.FairValue
    IN  [ticker |-> AsString(r, "ticker"), price |-> price, fair_value |-> fv,
         mos |-> MosOf(fv, price), strategy |-> strategy, notes |-> ev.Notes,
         conf |-> ev.Conf]

\* final rows only for the rows that have a float64 price
RECURSIVE finalRowsPricedOnly(_, _, _)
finalRowsPricedOnly(rows, byTicker, strategy) ==
    IF rows = <<>> THEN <<>>
    ELSE LET r == Head(rows)
             t == AsString(r, "ticker")
         IN  (IF t \in DOMAIN byTicker /\ "price" \in DOMAIN r /\ r["price"].t = "float64"
              THEN <<finalRow(r, byTicker[t], strategy)>> ELSE <<>>)
             \o finalRowsPricedOnly(Tail(rows), byTicker, strategy)

RECURSIVE finalRows(_, _, _)
finalRows(rows, byTicker, strategy) ==
    IF rows = <<>> THEN <<>>
    ELSE LET r == Head(rows)
             t == AsString(r, "ticker")
         IN  (IF t \in DOMAIN byTicker THEN <<finalRow(r, byTicker[t], strategy)>> ELSE <<>>)
             \o finalRows(Tail(rows), byTicker, strategy)

(***************************************************************************)
(* ConsoleSink.Publish                                                     *)
(***************************************************************************)
\* the keys an item can have, as sort.Strings orders them
KeyOrder == <<"conf", "fair_value", "mos", "notes", "price", "strategy", "ticker">>

RECURSIVE SortedKeys(_, _)
SortedKeys(keys, order) ==
    IF order = <<>> THEN <<>>
    ELSE (IF Head(order) \in keys THEN <<Head(order)>> ELSE <<>>)
         \o SortedKeys(keys, Tail(order))

consoleCols(items) == SortedKeys(UNION {DOMAIN items[i] : i \in DOMAIN items}, KeyOrder)

consoleRow(it, cols) ==
    [i \in 1..Len(cols) |-> IF cols[i] \in DOMAIN it THEN <<it[cols[i]]>> ELSE <<>>]

\* the error Publish returns: nil on both of its paths
publishResult(items) == "nil"

\* Publish printing the header of the table whatever the items are
consoleLinesAlwaysTable(items) ==
    <<"----- VAL RESULTS (console mode) -----", consoleCols(items)>>
    \o [i \in 1..Len(items) |-> consoleRow(items[i], consoleCols(items))]

\* the lines Publish prints; it returns nil in every case
consoleLines(items) ==
    IF Len(items) = 0 THEN <<"no results">>
    ELSE <<"----- VAL RESULTS (console mode) -----", consoleCols(items)>>
         \o [i \in 1..Len(items) |-> consoleRow(items[i], consoleCols(items))]

(***************************************************************************)
(* The registry                                                            *)
(***************************************************************************)
\* a registration that keeps the adapter a name already has
registerInFirstWins(reg, a) ==
    [n \in DOMAIN reg \cup {AdapterName(a)} |->
        IF n \in DOMAIN reg THEN reg[n] ELSE a]

\* registry[a.Name()] = a
registerIn(reg, a) ==
    [n \in DOMAIN reg \cup {AdapterName(a)} |-> IF n = AdapterName(a) THEN a ELSE reg[n]]

\* the nil Adapter
NoAdapter == ""

\* a lookup that leaves a nil entry behind for a name it did not find
registryAfterGetInserting(reg, name) ==
    [n \in DOMAIN reg \cup {name} |-> IF n \in DOMAIN reg THEN reg[n] ELSE NoAdapter]

\* the map after a, ok := registry[name]: reading a map does not change it
registryAfterGet(reg, name) == reg

\* a lookup that falls back to the mock adapter
GetOrMock(reg, name) ==
    IF name \in DOMAIN reg THEN [a |-> reg[name], ok |-> TRUE]
    ELSE [a |-> "mock", ok |-> TRUE]

\* a, ok := registry[name]
Get(reg, name) ==
    IF name \in DOMAIN reg THEN [a |-> reg[name], ok |-> TRUE]
    ELSE [a |-> NoAdapter, ok |-> FALSE]

\* Names(): the keys of the map, in any order a range over the map gives
Names(reg) ==
    {q \in [1..Cardinality(DOMAIN reg) -> DOMAIN reg] :
        \A i, j \in DOMAIN q : i # j => q[i] # q[j]}

\* func init() { Register(&mock{}) }
InitRun ==
    /\ registry = registerIn(<<>>, "mock")
    /\ pc = "idle"
    /\ opts = [Mode |-> "", Adapter |-> "", Strategy |-> ""]
    /\ tickers = <<>>
    /\ fetchErr = ""
    /\ raw = <<>>
    /\ evalErr = ""
    /\ evals = <<>>
    /\ final = <<>>
    /\ ret = ""
    /\ request = <<>>
    /\ post = NoPost
    /\ calls = <<>>
    /\ published = <<>>
    /\ console = <<>>

Register(a) ==
    /\ pc = "idle"
    /\ registry' = registerIn(registry, a)
    /\ UNCHANGED <<pc, opts, tickers, fetchErr, raw, evalErr, evals, final, ret, request,
                   post, calls, published, console>>
    /\ UNCHANGED <<smVars, regVars, splitVars>>

(***************************************************************************)
(* pipeline.Run, step by step                                              *)
(***************************************************************************)
Modes == {"console", "broadcast", "gui", "tui"}
AdapterNames == {"mock", "alt", "none"}
CSVs == SeqsUpTo(Chars, MaxCSV)

\* a mode switch whose default case is the console sink
sinkForConsoleByDefault(mode) ==
    IF mode = "broadcast" THEN [sink |-> "", err |-> "broadcast mode not yet implemented"]
    ELSE IF mode = "gui" THEN [sink |-> "", err |-> "gui mode not yet implemented"]
    ELSE [sink |-> "console", err |-> "nil"]

\* run.go 65-75: the sink of the mode, or the error Run returns
sinkFor(mode) ==
    IF mode = "console" THEN [sink |-> "console", err |-> "nil"]
    ELSE IF mode = "broadcast" THEN [sink |-> "", err |-> "broadcast mode not yet implemented"]
    ELSE IF mode = "gui" THEN [sink |-> "", err |-> "gui mode not yet implemented"]
    ELSE [sink |-> "", err |-> "unknown mode"]

\* run.go 20-24: adapters.Get, then splitCSV
RunLookup(name, strategy, csv) ==
    /\ pc = "idle"
    /\ opts' = [opts EXCEPT !.Adapter = name, !.Strategy = strategy]
    /\ calls' = Append(calls, "Get")
    /\ registry' = registryAfterGet(registry, name)
    /\ IF ~Get(registry, name).ok
       THEN /\ ret' = "adapter not found"
            /\ pc' = "done"
            /\ UNCHANGED tickers
       ELSE /\ tickers' = splitCSV(csv)
            /\ pc' = "fetch"
            /\ UNCHANGED ret
    /\ UNCHANGED <<fetchErr, raw, evalErr, evals, final, request, post, published,
                   console>>
    /\ UNCHANGED <<smVars, regVars, splitVars>>

\* a Run that looks at the mode before it fetches
RunFetchModeFirst ==
    /\ pc = "fetch"
    /\ \E mode \in Modes :
          IF sinkFor(mode).err # "nil"
          THEN /\ opts' = [opts EXCEPT !.Mode = mode]
               /\ ret' = sinkFor(mode).err
               /\ pc' = "done"
               /\ UNCHANGED <<calls, fetchErr, raw>>
          ELSE /\ calls' = Append(calls, "Fetch")
               /\ \E o \in FetchOutcomes(Get(registry, opts.Adapter).a, tickers) :
                     IF o.err
                     THEN /\ fetchErr' = "error"
                          /\ ret' = "fetch error"
                          /\ pc' = "done"
                          /\ UNCHANGED raw
                     ELSE /\ fetchErr' = "nil"
                          /\ raw' = o.rows
                          /\ pc' = "eval"
                          /\ UNCHANGED ret
               /\ UNCHANGED opts
    /\ UNCHANGED <<registry, tickers, evalErr, evals, final, request, post, published,
                   console>>
    /\ UNCHANGED <<smVars, regVars, splitVars>>

\* run.go 25-28: ad.Fetch
RunFetch ==
    /\ pc = "fetch"
    /\ calls' = Append(calls, "Fetch")
    /\ \E o \in FetchOutcomes(Get(registry, opts.Adapter).a, tickers) :
          IF o.err
          THEN /\ fetchErr' = "error"
               /\ ret' = "fetch error"
               /\ pc' = "done"
               /\ UNCHANGED raw
          ELSE /\ fetchErr' = "nil"
               /\ raw' = o.rows
               /\ pc' = "eval"
               /\ UNCHANGED ret
    /\ UNCHANGED <<registry, opts, tickers, evalErr, evals, final, request, post, published,
                   console>>
    /\ UNCHANGED <<smVars, regVars, splitVars>>

\* run.go 30-33: strategies.Eval
RunEval(p) ==
    /\ pc = "eval"
    /\ calls' = Append(calls, "Eval")
    /\ request' = evalRequest(opts.Strategy, raw)
    /\ post' = p
    /\ LET e == Eval(opts.Strategy, raw, p)
       IN  /\ evalErr' = e.err
           /\ evals' = e.results
           /\ IF e.err # "nil"
              THEN ret' = e.err /\ pc' = "done"
              ELSE pc' = "build" /\ UNCHANGED ret
    /\ UNCHANGED <<registry, opts, tickers, fetchErr, raw, final, published, console>>
    /\ UNCHANGED <<smVars, regVars, splitVars>>

\* run.go 35-76: the final rows, the sink of the mode, sink.Publish
RunPublish(mode) ==
    /\ pc = "build"
    /\ opts' = [opts EXCEPT !.Mode = mode]
    /\ \E byTicker \in fairByTickerBuilds(evals) :
          final' = finalRows(raw, byTicker, opts.Strategy)
    /\ pc' = "done"
    /\ IF sinkFor(mode).err = "nil"
       THEN /\ calls' = Append(calls, "Publish")
            /\ published' = Append(published, final')
            /\ console' = consoleLines(final')
            /\ ret' = publishResult(final')
       ELSE /\ ret' = sinkFor(mode).err
            /\ UNCHANGED <<calls, published, console>>
    /\ UNCHANGED <<registry, tickers, fetchErr, raw, evalErr, evals, request, post>>
    /\ UNCHANGED <<smVars, regVars, splitVars>>

(***************************************************************************)
(* Part II.  Each stage below has its own specification, in which the      *)
(* variables of the other stages keep these values.                        *)
(***************************************************************************)
MergeIdle ==
    /\ mPriority = <<>>
    /\ mLists = <<>>
    /\ mWalked = <<>>
    /\ mMerged = <<>>

WeightIdle ==
    /\ wCfg = <<>>
    /\ wIn = <<>>
    /\ wPart = {}
    /\ wStep = 0
    /\ wRaw = <<>>
    /\ wNorm = <<>>

SplitIdle ==
    /\ csvIn = <<>>
    /\ csvOut = <<>>

RegistryIdle ==
    /\ rCalls = <<>>
    /\ rDone = 0

ConsensusIdle ==
    /\ cCfg = <<>>
    /\ cPrice = <<>>
    /\ cResults = <<>>
    /\ cRaw = <<>>
    /\ cDone = {}
    /\ cRecords = <<>>
    /\ cGaps = {}

FanIdle ==
    /\ fSinks = {}
    /\ fRecords = <<>>
    /\ fState = <<>>
    /\ fReceived = <<>>
    /\ fErrors = {}

(***************************************************************************)
(* Part II.  The weighting engine (specification 4.5; README, Dynamic      *)
(* Strategy Weighting): a rule table evaluated in order, each rule         *)
(* adjusting the running weight of the growth-sensitive strategy class.    *)
(* Weights and fractions are in hundredths.                                *)
(***************************************************************************)
Some(x) == <<x>>
None == <<>>
Has(o) == Len(o) > 0
Val(o) == o[1]

\* the two strategies of the README and their classes
WStrategies == {"peter_lynch", "psales_rev"}
GrowthSensitive(s) == s = "peter_lynch"

\* the configuration: the README's settings.yaml, and a second value of the
\* penalty and of the boost
WConfigs ==
    [low_margin_threshold : {5}, high_margin_threshold : {10},
     high_growth_threshold : {15},
     negative_growth_penalty : {30, 50}, high_growth_boost : {20, 50},
     default_growth_weight : {50}, default_other_weight : {50}]

WMargins == {Some(3), Some(5), Some(7), Some(10), Some(12), None}
WGrowths == {Some(-5), Some(0), Some(15), Some(20), None}
WEarnings == {Some(-100), Some(0), Some(200), None}

\* the fundamentals for which 4.5 says what the weights are: without a net
\* margin it speaks only of the case where the growth estimate is absent too
WInputs ==
    {in \in [net_margin : WMargins, growth : WGrowths, eps : WEarnings] :
        ~Has(in.net_margin) => ~Has(in.growth) /\ Has(in.eps) /\ Val(in.eps) >= 0}

Weights(g, o) == [growth |-> g, other |-> o]

\* rules 1 and 5: the net margin band, or the defaults when neither margin nor
\* growth is available
ruleMargin(cfg, in) ==
    IF ~Has(in.net_margin) /\ ~Has(in.growth)
    THEN Weights(cfg.default_growth_weight, cfg.default_other_weight)
    ELSE IF Val(in.net_margin) < cfg.low_margin_threshold THEN Weights(20, 80)
    ELSE IF Val(in.net_margin) > cfg.high_margin_threshold THEN Weights(80, 20)
    ELSE Weights(60, 40)

\* rule 2 with the penalty taken as the factor
ruleGrowthPenaltyAsFactor(cfg, in, w) ==
    IF Has(in.growth) /\ Val(in.growth) < 0
    THEN [w EXCEPT !.growth = (@ * cfg.negative_growth_penalty) \div 100]
    ELSE IF Has(in.growth) /\ Val(in.growth) > cfg.high_growth_threshold
    THEN [w EXCEPT !.growth = (@ * (100 + cfg.high_growth_boost)) \div 100]
    ELSE w

\* rule 2: the growth estimate
ruleGrowth(cfg, in, w) ==
    IF Has(in.growth) /\ Val(in.growth) < 0
    THEN [w EXCEPT !.growth = (@ * (100 - cfg.negative_growth_penalty)) \div 100]
    ELSE IF Has(in.growth) /\ Val(in.growth) > cfg.high_growth_threshold
    THEN [w EXCEPT !.growth = (@ * (100 + cfg.high_growth_boost)) \div 100]
    ELSE w

\* rule 3: the earnings-quality override
ruleEarnings(in, w) ==
    IF ~Has(in.eps) \/ Val(in.eps) < 0 THEN Weights(10, 90) ELSE w

rawWeight(w, s) == IF GrowthSensitive(s) THEN w.growth ELSE w.other

RECURSIVE SumOver(_, _, _)
SumOver(S, w, acc) ==
    IF S = {} THEN acc
    ELSE LET s == CHOOSE x \in S : TRUE
         IN  SumOver(S \ {s}, w, acc + rawWeight(w, s))

\* rule 4: renormalise over the participating strategies; the others get 0
normalise(w, part) ==
    [s \in WStrategies |->
        IF s \in part THEN Rat(rawWeight(w, s), SumOver(part, w, 0)) ELSE Rat(0, 1)]

InitWeights ==
    /\ InitRun /\ MergeIdle /\ ConsensusIdle /\ FanIdle /\ RegistryIdle /\ SplitIdle
    /\ wCfg \in WConfigs
    /\ wIn \in WInputs
    /\ wPart \in (SUBSET WStrategies) \ {{}}
    /\ wStep = 0
    /\ wRaw = <<>>
    /\ wNorm = <<>>

RuleMargin ==
    /\ wStep = 0
    /\ wRaw' = ruleMargin(wCfg, wIn)
    /\ wStep' = 1
    /\ UNCHANGED <<wCfg, wIn, wPart, wNorm>>
    /\ UNCHANGED <<goVars, mergeVars, consensusVars, fanVars, regVars, splitVars>>

RuleGrowth ==
    /\ wStep = 1
    /\ wRaw' = ruleGrowth(wCfg, wIn, wRaw)
    /\ wStep' = 2
    /\ UNCHANGED <<wCfg, wIn, wPart, wNorm>>
    /\ UNCHANGED <<goVars, mergeVars, consensusVars, fanVars, regVars, splitVars>>

RuleEarnings ==
    /\ wStep = 2
    /\ wRaw' = ruleEarnings(wIn, wRaw)
    /\ wStep' = 3
    /\ UNCHANGED <<wCfg, wIn, wPart, wNorm>>
    /\ UNCHANGED <<goVars, mergeVars, consensusVars, fanVars, regVars, splitVars>>

Normalise ==
    /\ wStep = 3
    /\ wNorm' = normalise(wRaw, wPart)
    /\ wStep' = 4
    /\ UNCHANGED <<wCfg, wIn, wPart, wRaw>>
    /\ UNCHANGED <<goVars, mergeVars, consensusVars, fanVars, regVars, splitVars>>

NextWeights == RuleMargin \/ RuleGrowth \/ RuleEarnings \/ Normalise

SpecWeights == InitWeights /\ [][NextWeights]_vars

(***************************************************************************)
(* Part II.  Fundamentals merge (specification 4.2, 4.3): for each ticker  *)
(* walk its RawRecords in adapter-priority order; per field the first      *)
(* RawRecord with a non-null value wins and is recorded with provenance.   *)
(***************************************************************************)
MaxAdapters == 2

AdapterPool == <<"vendorA", "vendorB", "vendorC", "vendorD">>
MTickers == {"X", "Y"}
MFields == {"price", "eps"}
Null == [t |-> "nil"]

\* what the i-th adapter of the pool supplies: vendorA price 100, vendorB
\* price 200 and eps 2.5, ...
SuppliedPrice(i) == Flt(10000 * i)
SuppliedEps(i) == Flt(125 * i)

\* the row an adapter returns for a ticker: none, or one of these shapes
Shapes == {"none", "price", "eps", "both"}

RawFields(i, shape) ==
    IF shape = "price" THEN [price |-> SuppliedPrice(i)]
    ELSE IF shape = "eps" THEN [price |-> Null, eps |-> SuppliedEps(i)]
    ELSE [price |-> SuppliedPrice(i), eps |-> SuppliedEps(i)]

\* the Fetch Orchestrator's output for one ticker: the RawRecords of the
\* adapters that returned a row, in priority order
RECURSIVE RawList(_, _, _)
RawList(priority, shapeOf, i) ==
    IF i > Len(priority) THEN <<>>
    ELSE (IF shapeOf[i] = "none" THEN <<>>
          ELSE <<[adapter |-> priority[i], fields |-> RawFields(i, shapeOf[i])]>>)
         \o RawList(priority, shapeOf, i + 1)

NonNull(rr, f) == f \in DOMAIN rr.fields /\ rr.fields[f].t # "nil"

\* one step of the walk: the fields rr defines that are not resolved yet
mergeRecordLastWins(m, rr) ==
    [f \in DOMAIN m \cup {g \in MFields : NonNull(rr, g)} |->
        IF NonNull(rr, f) THEN [value |-> rr.fields[f], source |-> rr.adapter] ELSE m[f]]

mergeRecord(m, rr) ==
    [f \in DOMAIN m \cup {g \in MFields : NonNull(rr, g)} |->
        IF f \in DOMAIN m THEN m[f] ELSE [value |-> rr.fields[f], source |-> rr.adapter]]

InitMerge ==
    /\ InitRun /\ WeightIdle /\ ConsensusIdle /\ FanIdle /\ RegistryIdle /\ SplitIdle
    /\ \E n \in 1..MaxAdapters :
         /\ mPriority = SubSeq(AdapterPool, 1, n)
         /\ \E shapes \in [MTickers -> [1..n -> Shapes]] :
              mLists = [t \in MTickers |-> RawList(mPriority, shapes[t], 1)]
    /\ mWalked = [t \in MTickers |-> 0]
    /\ mMerged = [t \in MTickers |-> <<>>]

MergeStep(t) ==
    /\ mWalked[t] < Len(mLists[t])
    /\ mMerged' = [mMerged EXCEPT ![t] = mergeRecord(@, mLists[t][mWalked[t] + 1])]
    /\ mWalked' = [mWalked EXCEPT ![t] = @ + 1]
    /\ UNCHANGED <<mPriority, mLists>>
    /\ UNCHANGED <<goVars, weightVars, consensusVars, fanVars, regVars, splitVars>>

NextMerge == \E t \in MTickers : MergeStep(t)

SpecMerge == InitMerge /\ [][NextMerge]_vars

(***************************************************************************)
(* Part II.  The consensus aggregator (specification 4.6).  Fair values    *)
(* are whole numbers, weights hundredths; the consensus fair value and the *)
(* margin of safety are fractions.                                         *)
(***************************************************************************)
MaxStrategies == 2

StrategyPool == <<"peter_lynch", "psales_rev", "dcf_gordon", "epv_ebit">>
CTickers == {"X", "Y"}
CFairValues == {None, Some(1000), Some(3000)}
CPrices == {500}
CRawWeights == {Weights(60, 40), Weights(20, 80)}
AggregationModes == {"weighted", "median"}

\* the MoS threshold of the documented configuration, thresholds.min_mos: 0.20
MinMos == 20

Range(q) == {q[i] : i \in DOMAIN q}

\* the strategies of the run with a non-declined result, in configuration order
participating(strategies, res) == SelectSeq(strategies, LAMBDA s : Has(res[s]))

RECURSIVE sumRaw(_, _)
sumRaw(part, w) ==
    IF part = <<>> THEN 0 ELSE rawWeight(w, Head(part)) + sumRaw(Tail(part), w)

RECURSIVE sumWeighted(_, _, _)
sumWeighted(part, res, w) ==
    IF part = <<>> THEN 0
    ELSE rawWeight(w, Head(part)) * Val(res[Head(part)]) + sumWeighted(Tail(part), res, w)

\* the weighted sum with the weights of rule 1 to 3 taken as they are
weightedAverageUnnormalised(part, res, w) == Rat(sumWeighted(part, res, w), 100)

\* sum of weight_s * fair_value_s, the weights renormalised over part
weightedAverage(part, res, w) == Rat(sumWeighted(part, res, w), sumRaw(part, w))

RECURSIVE insertSorted(_, _)
insertSorted(q, x) ==
    IF q = <<>> THEN <<x>>
    ELSE IF x <= Head(q) THEN <<x>> \o q
    ELSE <<Head(q)>> \o insertSorted(Tail(q), x)

RECURSIVE sortedValues(_, _)
sortedValues(part, res) ==
    IF part = <<>> THEN <<>>
    ELSE insertSorted(sortedValues(Tail(part), res), Val(res[Head(part)]))

\* the median of the participating fair values: the middle one, or the mean
\* of the two middle ones
median(part, res) ==
    LET q == sortedValues(part, res)
        k == Len(q)
    IN  IF k % 2 = 1 THEN Rat(q[(k + 1) \div 2], 1)
        ELSE Rat(q[k \div 2] + q[k \div 2 + 1], 2)

\* (fair_value - price) / fair_value when fair_value > 0, else 0
consensusMos(fv, price) ==
    IF fv.n > 0 THEN Rat(fv.n - price * fv.d, fv.n) ELSE Rat(0, 1)

consensusRecord(cfg, t, price, res, w) ==
    LET part == participating(cfg.strategies, res)
        fv == IF cfg.mode = "weighted" THEN weightedAverage(part, res, w)
              ELSE median(part, res)
        mos == consensusMos(fv, price)
    IN  [ticker |-> t, price |-> price, fair_value |-> fv, margin_of_safety |-> mos,
         contributing_strategies |-> Range(part),
         weights |-> [s \in Range(cfg.strategies) |->
                        IF s \in Range(part) THEN Rat(rawWeight(w, s), sumRaw(part, w))
                        ELSE Rat(0, 1)],
         undervalued |-> (mos.n * 100 >= cfg.min_mos * mos.d)]

InitConsensus ==
    /\ InitRun /\ MergeIdle /\ WeightIdle /\ FanIdle /\ RegistryIdle /\ SplitIdle
    /\ \E n \in 1..MaxStrategies, mode \in AggregationModes :
         /\ cCfg = [strategies |-> SubSeq(StrategyPool, 1, n), mode |-> mode,
                    min_mos |-> MinMos]
         /\ cResults \in [CTickers -> [Range(SubSeq(StrategyPool, 1, n)) -> CFairValues]]
    /\ cPrice \in [CTickers -> CPrices]
    /\ cRaw \in [CTickers -> CRawWeights]
    /\ cDone = {}
    /\ cRecords = [t \in CTickers |-> <<>>]
    /\ cGaps = {}

Aggregate(t) ==
    /\ t \notin cDone
    /\ cDone' = cDone \cup {t}
    /\ IF participating(cCfg.strategies, cResults[t]) = <<>>
       THEN /\ cGaps' = cGaps \cup {t}
            /\ UNCHANGED cRecords
       ELSE /\ cRecords' = [cRecords EXCEPT
                               ![t] = <<consensusRecord(cCfg, t, cPrice[t], cResults[t], cRaw[t])>>]
            /\ UNCHANGED cGaps
    /\ UNCHANGED <<cCfg, cPrice, cResults, cRaw>>
    /\ UNCHANGED <<goVars, mergeVars, weightVars, fanVars, regVars, splitVars>>

NextConsensus == \E t \in CTickers : Aggregate(t)

SpecConsensus == InitConsensus /\ [][NextConsensus]_vars

(***************************************************************************)
(* Part II.  The sink fan-out (specification 4.7): each configured sink is *)
(* invoked with the final sequence of records; a failure is recorded.      *)
(***************************************************************************)
MaxSinks == 2

SinkPool == {"console", "json", "broadcast", "gui"}
FRecordSeqs == {<<>>, <<"X">>, <<"X", "Y">>, <<"Y", "X">>}

SinkPublishError(s) == [error |-> "SinkPublishError", sink |-> s]

\* a sink is invoked only as long as no sink has failed
canInvokeUntilFailure(state, s) ==
    state[s] = "pending" /\ \A x \in DOMAIN state : state[x] # "failed"

\* every configured sink not invoked yet can be invoked
canInvoke(state, s) == state[s] = "pending"

InitFan ==
    /\ InitRun /\ MergeIdle /\ WeightIdle /\ ConsensusIdle /\ RegistryIdle /\ SplitIdle
    /\ fSinks \in {S \in SUBSET SinkPool : Cardinality(S) <= MaxSinks}
    /\ fRecords \in FRecordSeqs
    /\ fState = [s \in fSinks |-> "pending"]
    /\ fReceived = [s \in fSinks |-> <<>>]
    /\ fErrors = {}

\* publish(records) of sink s, which succeeds or fails
FanPublish(s, ok) ==
    /\ canInvoke(fState, s)
    /\ fReceived' = [fReceived EXCEPT ![s] = <<fRecords>>]
    /\ fState' = [fState EXCEPT ![s] = IF ok THEN "ok" ELSE "failed"]
    /\ fErrors' = IF ok THEN fErrors ELSE fErrors \cup {SinkPublishError(s)}
    /\ UNCHANGED <<fSinks, fRecords>>
    /\ UNCHANGED <<goVars, mergeVars, weightVars, consensusVars, regVars, splitVars>>

NextFan == \E s \in fSinks, ok \in BOOLEAN : FanPublish(s, ok)

SpecFan == InitFan /\ [][NextFan]_vars

(***************************************************************************)
(* The specifications                                                      *)
(***************************************************************************)
Init == InitRun /\ MergeIdle /\ WeightIdle /\ ConsensusIdle /\ FanIdle /\ RegistryIdle /\ SplitIdle

Next ==
    \/ \E a \in Adapters : Register(a)
    \/ \E name \in AdapterNames, strategy \in Strategies, csv \in CSVs :
          RunLookup(name, strategy, csv)
    \/ RunFetch
    \/ \E p \in PostOutcomes : RunEval(p)
    \/ \E mode \in Modes : RunPublish(mode)

Spec == Init /\ [][Next]_vars

(***************************************************************************)
(* Run from the point where Fetch has returned, for an adapter that may    *)
(* return any rows: with or without a ticker, an empty or a non-string     *)
(* ticker, with or without a price, a price that is not a float64.         *)
(***************************************************************************)
FetchedRows ==
    AltRows \cup {[ticker |-> Str(<<"A">>), price |-> Str(<<"A">>)],
                  [ticker |-> Str(<<>>), price |-> AltPrice],
                  [ticker |-> Flt(100), price |-> AltPrice]}

InitRows ==
    /\ registry = registerIn(registerIn(<<>>, "mock"), "alt")
    /\ pc = "eval"
    /\ opts = [Mode |-> "", Adapter |-> "alt", Strategy |-> "peter_lynch"]
    /\ tickers = <<(<<"A">>)>>
    /\ fetchErr = "nil"
    /\ raw \in SeqsUpTo(FetchedRows, MaxRows)
    /\ evalErr = "" /\ evals = <<>> /\ final = <<>> /\ ret = "" /\ request = <<>>
    /\ post = NoPost
    /\ calls = <<"Get", "Fetch">>
    /\ published = <<>> /\ console = <<>>
    /\ MergeIdle /\ WeightIdle /\ ConsensusIdle /\ FanIdle /\ RegistryIdle /\ SplitIdle

NextRows ==
    \/ \E p \in PostOutcomes : RunEval(p)
    \/ \E mode \in Modes : RunPublish(mode)

SpecRows == InitRows /\ [][NextRows]_vars

(***************************************************************************)
(* splitCSV alone, applied to the strings of up to MaxCSV characters, among *)
(* them a lower-case letter.                                               *)
(***************************************************************************)
SplitChars == Chars \cup {"a"}

InitSplit ==
    /\ InitRun
    /\ MergeIdle /\ WeightIdle /\ ConsensusIdle /\ FanIdle /\ RegistryIdle
    /\ csvIn \in SeqsUpTo(SplitChars, MaxCSV)
    /\ csvOut = None

\* tickers := splitCSV(opts.TickersCSV)
SplitCSV ==
    /\ ~Has(csvOut)
    /\ csvOut' = Some(splitCSV(csvIn))
    /\ UNCHANGED <<goVars, smVars, regVars, csvIn>>

NextSplit == SplitCSV

SpecSplit == InitSplit /\ [][NextSplit]_vars

(***************************************************************************)
(* The registry alone: var registry = map[string]Adapter{}, then the       *)
(* Register calls of a given sequence, one after the other.                *)
(***************************************************************************)
MaxRegister == 3

InitRegistry ==
    /\ registry = <<>>
    /\ rCalls \in SeqsUpTo(Adapters, MaxRegister)
    /\ rDone = 0
    /\ pc = "idle"
    /\ opts = [Mode |-> "", Adapter |-> "", Strategy |-> ""]
    /\ tickers = <<>> /\ fetchErr = "" /\ raw = <<>> /\ evalErr = "" /\ evals = <<>>
    /\ final = <<>> /\ ret = "" /\ request = <<>> /\ post = NoPost /\ calls = <<>>
    /\ published = <<>> /\ console = <<>>
    /\ MergeIdle /\ WeightIdle /\ ConsensusIdle /\ FanIdle /\ SplitIdle

\* Register(rCalls[rDone + 1])
RegisterNext ==
    /\ rDone < Len(rCalls)
    /\ registry' = registerIn(registry, rCalls[rDone + 1])
    /\ rDone' = rDone + 1
    /\ UNCHANGED <<pc, opts, tickers, fetchErr, raw, evalErr, evals, final, ret, request,
                   post, calls, published, console>>
    /\ UNCHANGED <<smVars, rCalls, splitVars>>

NextRegistry == RegisterNext

SpecRegistry == InitRegistry /\ [][NextRegistry]_vars

(***************************************************************************)
(* The claims                                                              *)
(***************************************************************************)
\* the items of every call of sink.Publish
PublishedRows == UNION {{published[c][i] : i \in DOMAIN published[c]} : c \in DOMAIN published}

\* C1: for every ticker and every field, the merged value is the value of the
\* earliest RawRecord in adapter-priority order, among those walked so far,
\* that has a non-null value for the field, recorded with that adapter as its
\* source; the field is unresolved when there is none.  So no later adapter
\* overwrites a field an earlier one resolved.
C1_FirstNonNullWins ==
    \A t \in MTickers, f \in MFields :
        LET S == {i \in 1..mWalked[t] : NonNull(mLists[t][i], f)}
        IN  IF S = {} THEN f \notin DOMAIN mMerged[t]
            ELSE LET i == CHOOSE k \in S : \A j \in S : k <= j
                 IN  /\ f \in DOMAIN mMerged[t]
                     /\ mMerged[t][f] = [value |-> mLists[t][i].fields[f],
                                         source |-> mLists[t][i].adapter]

\* vendorA price=100 and vendorB price=200, eps=2.5 are merged to price=100
\* (vendorA), eps=2.5 (vendorB)
C1_Witness ==
    \E t \in MTickers :
        /\ Len(mLists[t]) = 2 /\ mWalked[t] = 2
        /\ mLists[t][1] = [adapter |-> "vendorA", fields |-> [price |-> Flt(10000)]]
        /\ mLists[t][2] = [adapter |-> "vendorB",
                           fields |-> [price |-> Flt(20000), eps |-> Flt(250)]]
        /\ mMerged[t] = [price |-> [value |-> Flt(10000), source |-> "vendorA"],
                         eps |-> [value |-> Flt(250), source |-> "vendorB"]]

\* C2: when the adapter's fetch has returned an error, the run is not aborted:
\* it ends with a publication.
C2_FetchErrorStillPublishes ==
    (pc = "done" /\ fetchErr = "error") => Len(published) > 0

\* C3: a transport error or a response whose status is not 2xx makes Eval
\* return a failure and no result.
C3_Non2xxFails ==
    (evalErr # "" /\ (post.err \/ post.status \notin 200..299)) =>
        (evalErr # "nil" /\ evals = <<>>)

\* C4: when the strategy's batch call has failed (a transport error, HTTP
\* 500), the run still publishes.
C4_StrategyFailureStillPublishes ==
    (pc = "done" /\ evalErr # "" /\ (post.err \/ post.status = 500)) => Len(published) > 0

\* C6: every published record has mos = (fair_value - price) / fair_value when
\* its fair_value > 0, and mos = 0 when its fair_value is 0 or negative.
C6_MarginOfSafety ==
    \A r \in PublishedRows :
        /\ r.mos.d # 0
        /\ r.fair_value > 0 => r.mos.n * r.fair_value = (r.fair_value - r.price) * r.mos.d
        /\ r.fair_value <= 0 => r.mos.n = 0

\* one publication with a record of a positive fair value and a positive
\* price and a record of a fair value that is not positive
C6_Witness ==
    \E r1, r2 \in PublishedRows :
        /\ r1.fair_value > 0 /\ r1.price > 0 /\ r1.mos.n # 0
        /\ r2.fair_value <= 0 /\ r2.price > 0

\* C7: every published record carries undervalued, true exactly when its
\* margin of safety is at least the configured threshold.
C7_UndervaluedFlag ==
    \A r \in PublishedRows :
        /\ "undervalued" \in DOMAIN r
        /\ r.undervalued = (r.mos.n * 100 >= MinMos * r.mos.d)

\* C8: every published record carries the weights of its ticker: none
\* negative, summing to 1 over the strategies with a result for the ticker
\* (here the one strategy of the run), 0 for every other strategy.
C8_WeightsNormalised ==
    \A r \in PublishedRows :
        /\ "weights" \in DOMAIN r
        /\ \A s \in DOMAIN r.weights :
              r.weights[s] = IF s = r.strategy THEN 100 ELSE 0
        /\ r.strategy \in DOMAIN r.weights

IsJthSmallest(x, j, P, res) ==
    /\ \E s \in P : Val(res[s]) = x
    /\ Cardinality({s \in P : Val(res[s]) < x}) < j
    /\ j <= Cardinality({s \in P : Val(res[s]) <= x})

RECURSIVE SetSum(_, _, _)
SetSum(S, f(_), acc) ==
    IF S = {} THEN acc
    ELSE LET s == CHOOSE x \in S : TRUE IN SetSum(S \ {s}, f, acc + f(s))

C10_SinksIndependent ==
    \A s \in fSinks :
        /\ fState[s] # "pending" => fReceived[s] = <<fRecords>>
        /\ fState[s] = "failed" <=> SinkPublishError(s) \in fErrors
        /\ fState[s] = "pending" => ENABLED (\E ok \in BOOLEAN : FanPublish(s, ok))

\* a sink has failed, and another one was invoked after it with the same
\* records
C10_Witness ==
    \E s1, s2 \in fSinks :
        /\ s1 # s2
        /\ fState[s1] = "failed" /\ SinkPublishError(s1) \in fErrors
        /\ fState[s2] = "ok"
        /\ fReceived[s1] = <<fRecords>> /\ fReceived[s2] = <<fRecords>>
        /\ Len(fRecords) = 2

\* the errors of the mode switch of Run
ModeErrors == {"broadcast mode not yet implemented", "gui mode not yet implemented",
               "unknown mode"}

\* C11: ConsoleSink.Publish called with an empty sequence of records prints
\* "no results", and nothing else, and returns nil.
C11_EmptyPublishReportsNoResults ==
    \A c \in DOMAIN published :
        published[c] = <<>> => (console = <<"no results">> /\ ret = "nil")

\* Publish was called with no records
C11_Witness ==
    /\ pc = "done"
    /\ published = <<(<<>>)>>
    /\ console = <<"no results">>
    /\ ret = "nil"

\* C12: a run given no tickers, whose adapter is registered and fetches no
\* rows without an error, and whose mode has a sink, ends with the sink
\* invoked once on the empty sequence and returns nil.
C12_ZeroTickersPublishesEmpty ==
    (pc = "done" /\ tickers = <<>> /\ fetchErr = "nil" /\ raw = <<>>
        /\ ret \notin ModeErrors)
    => (published = <<(<<>>)>> /\ ret = "nil")

\* C13: when the requested adapter name is not registered, Run returns the
\* adapter-not-found error right after the lookup: no Fetch, no Eval, no
\* Publish is called in that run.
C13_AdapterNotFoundIsImmediate ==
    (pc # "idle" /\ opts.Adapter \notin DOMAIN registry)
    => /\ pc = "done"
       /\ ret = "adapter not found"
       /\ calls = <<"Get">>
       /\ raw = <<>> /\ request = <<>> /\ post = NoPost
       /\ published = <<>> /\ console = <<>>

\* a run asked for an adapter that is not registered
C13_Witness ==
    /\ pc = "done"
    /\ opts.Adapter = "none"
    /\ "none" \notin DOMAIN registry
    /\ ret = "adapter not found"

ErrorReport == IF ret = "nil" THEN {} ELSE {ret}

\* the fields the strategy needs: eps_ttm for Peter Lynch
RequiredFields(strategy) == {"eps_ttm"}

\* the tickers of the fetched rows, and of the items sent for evaluation
RawTickers == {AsString(raw[i], "ticker") : i \in DOMAIN raw} \ {<<>>}
RequestTickers ==
    IF request = <<>> THEN {} ELSE {request.Items[i].Ticker : i \in DOMAIN request.Items}

\* C14: a finished run returns an error, other than the one of a mode without
\* a sink, only when the requested adapter is not registered; a Fetch error
\* or an Eval error never makes Run fail.
C14_OnlyLookupFailuresAbort ==
    (pc = "done" /\ ret \notin ({"nil"} \cup ModeErrors))
    => opts.Adapter \notin DOMAIN registry

\* C16: when the evaluation succeeded, a fetched ticker with no strategy
\* result has no published record and the run's error report is not empty.
C16_EvaluationGapReported ==
    (pc = "done" /\ evalErr = "nil")
    => \A t \in RawTickers :
          t \notin DOMAIN fairByTicker(evals)
          => /\ \A r \in PublishedRows : r.ticker # t
             /\ ErrorReport # {}

\* C17: when the fetch succeeded, a requested ticker with no fetched row is not
\* sent for evaluation, has no published record, and the run's error report
\* is not empty.
C17_IncompleteTickerReported ==
    (pc = "done" /\ fetchErr = "nil")
    => \A i \in DOMAIN tickers :
          tickers[i] \notin RawTickers
          => /\ tickers[i] \notin RequestTickers
             /\ \A r \in PublishedRows : r.ticker # tickers[i]
             /\ ErrorReport # {}

\* C18: no ticker is sent to the strategy with a record that lacks a field the
\* strategy requires, and when a fetched record lacks one the run's error
\* report is not empty.
C18_MissingFieldSkipsStrategy ==
    (pc = "done" /\ request # <<>>)
    => /\ \A i \in DOMAIN request.Items :
             RequiredFields(request.Strategy) \subseteq DOMAIN request.Items[i].Data
       /\ (\E i \in DOMAIN raw :
              /\ AsString(raw[i], "ticker") # <<>>
              /\ ~(RequiredFields(opts.Strategy) \subseteq DOMAIN raw[i]))
          => ErrorReport # {}

\* C20: no two records of one call of Publish have the same ticker.
C20_OneRecordPerTicker ==
    \A c \in DOMAIN published :
        \A i, j \in DOMAIN published[c] :
            i # j => published[c][i].ticker # published[c][j].ticker

\* the names under which the first rDone adapters of rCalls were registered
RegisteredNames == {AdapterName(rCalls[i]) : i \in 1..rDone}

\* C19: after any sequence of Register calls, Get(name) returns the adapter
\* registered last under the name, and not-found for a name never registered;
\* whatever the order of the calls and of the map's iteration, Names() has
\* each registered name exactly once and nothing else.
C19_RegistryLastWins ==
    /\ \A name \in AdapterNames :
          LET idx == {i \in 1..rDone : AdapterName(rCalls[i]) = name}
          IN  IF idx = {} THEN Get(registry, name) = [a |-> NoAdapter, ok |-> FALSE]
              ELSE Get(registry, name) =
                      [a |-> rCalls[CHOOSE i \in idx : \A j \in idx : j <= i], ok |-> TRUE]
    /\ \A q \in Names(registry) :
          /\ \A name \in RegisteredNames : Cardinality({j \in DOMAIN q : q[j] = name}) = 1
          /\ \A j \in DOMAIN q : q[j] \in RegisteredNames

\* alt, then alt2 under the same name: Get("alt") gives alt2, and "mock", never
\* registered, is not found
C19_Witness ==
    /\ rCalls = <<"alt", "alt2">>
    /\ rDone = 2
    /\ Get(registry, "alt") = [a |-> "alt2", ok |-> TRUE]
    /\ ~Get(registry, "mock").ok
    /\ Names(registry) = {<<"alt">>}

\* the orders n rows can be given in
Perms(n) == {q \in [1..n -> 1..n] : \A i, j \in 1..n : i # j => q[i] # q[j]}

\* C21: the lines the console sink prints for the published records are the
\* same in whatever order the same records are given to it.
C21_ConsoleOrderStable ==
    \A c \in DOMAIN published :
        \A q \in Perms(Len(published[c])) :
            consoleLines([i \in 1..Len(published[c]) |-> published[c][q[i]]])
                = consoleLines(published[c])

\* C22: a run whose strategy-service call timed out still publishes.
C22_TimeoutStillPublishes ==
    (pc = "done" /\ post.err /\ post.timeout) => Len(published) > 0

C24_RunLeavesRegistryAlone ==
    [][(pc # "idle" \/ pc' # "idle") => registry' = registry]_vars

\* a run with a registered and an unregistered name has finished, each leaving
\* the registry of two adapters as it was
C24_Witness ==
    /\ pc = "done"
    /\ DOMAIN registry = {"mock", "alt"}
    /\ \/ opts.Adapter = "none" /\ ret = "adapter not found"
       \/ opts.Adapter = "alt" /\ ret = "nil" /\ published # <<>>

\* C25: Publish is called at most once in a run, and only after the lookup,
\* the fetch and the evaluation succeeded, in that order, and the mode is
\* console; Run then returns what Publish returned.
C25_PublishOnceAfterSuccess ==
    /\ Cardinality({i \in DOMAIN calls : calls[i] = "Publish"}) <= 1
    /\ Len(published) <= 1
    /\ (published # <<>> \/ "Publish" \in Range(calls))
       => /\ calls = <<"Get", "Fetch", "Eval", "Publish">>
          /\ Get(registry, opts.Adapter).ok
          /\ fetchErr = "nil"
          /\ evalErr = "nil" /\ ~post.err /\ post.status < 300 /\ post.decodes
          /\ opts.Mode = "console"
          /\ pc = "done"
          /\ Len(published) = 1 /\ published[1] = final
          /\ ret = publishResult(final)

\* Publish was called with two records
C25_Witness ==
    /\ calls = <<"Get", "Fetch", "Eval", "Publish">>
    /\ Len(published) = 1
    /\ Len(published[1]) = 2
    /\ ret = "nil"

\* the fetched rows whose ticker has a strategy result
RowsWithResult ==
    {i \in DOMAIN raw : AsString(raw[i], "ticker") \in {evals[j].Ticker : j \in DOMAIN evals}}

\* the place among the published records of the fetched row i
PlaceOf(i) == Cardinality({i2 \in RowsWithResult : i2 <= i})

\* C26: the published records are, in fetch order, the fetched rows whose
\* ticker has a strategy result, one record each and no other record; each
\* carries the last result given for its ticker.
C26_PublishedAreRowsWithResults ==
    published # <<>>
    => /\ Len(published[1]) = Cardinality(RowsWithResult)
       /\ \A i \in RowsWithResult :
             LET t == AsString(raw[i], "ticker")
                 last == CHOOSE j \in DOMAIN evals :
                            /\ evals[j].Ticker = t
                            /\ \A j2 \in DOMAIN evals : j2 > j => evals[j2].Ticker # t
                 rec == published[1][PlaceOf(i)]
             IN  /\ rec.ticker = t
                 /\ rec.price = AsFloat(raw[i], "price")
                 /\ rec.fair_value = evals[last].FairValue
                 /\ rec.notes = evals[last].Notes /\ rec.conf = evals[last].Conf
                 /\ rec.strategy = opts.Strategy

\* of two fetched rows one has no result and is skipped; the other has two
\* results, and is published with the last
C26_Witness ==
    /\ Len(raw) = 2 /\ Len(published) = 1 /\ Len(published[1]) = 1
    /\ Len(evals) = 2
    /\ evals[1].Ticker = evals[2].Ticker
    /\ evals[1].FairValue = -1000 /\ evals[2].FairValue = 6000
    /\ published[1][1].fair_value = 6000

\* the fetched row i has no price, or a price that is not a float64
NoFloatPrice(i) == "price" \notin DOMAIN raw[i] \/ raw[i]["price"].t # "float64"

\* C27: a fetched row with a result and without a float64 price is published
\* with price 0, and with margin of safety 1 when its fair value is above 0;
\* Run returns nil.
C27_MissingPriceIsZero ==
    published # <<>>
    => \A i \in RowsWithResult :
          NoFloatPrice(i)
          => /\ PlaceOf(i) \in DOMAIN published[1]
             /\ LET rec == published[1][PlaceOf(i)]
                IN  /\ rec.ticker = AsString(raw[i], "ticker")
                    /\ rec.price = 0
                    /\ rec.fair_value > 0 => (rec.mos.n = rec.mos.d /\ rec.mos.d # 0)
             /\ ret = "nil"

\* a row without a price and a row with a string for a price are published,
\* each with price 0 and margin of safety 1
C27_Witness ==
    /\ Len(published) = 1 /\ Len(published[1]) = 2 /\ Len(raw) = 2
    /\ "price" \notin DOMAIN raw[1]
    /\ "price" \in DOMAIN raw[2] /\ raw[2]["price"].t = "string"
    /\ \A k \in 1..2 : /\ published[1][k].price = 0
                       /\ published[1][k].fair_value = 6000
                       /\ published[1][k].mos = Rat(6000, 6000)
    /\ ret = "nil"

\* the fetched rows whose ticker is a non-empty string
RowsWithTicker ==
    {i \in DOMAIN raw : /\ "ticker" \in DOMAIN raw[i]
                        /\ raw[i]["ticker"].t = "string"
                        /\ raw[i]["ticker"].s # <<>>}

\* C29: the request Eval builds has, in row order, one item for each row whose
\* ticker is a non-empty string and no other item; the data of an item are the
\* fields of its row without the ticker; and no step changes the rows.
C29_RequestItems ==
    /\ [](request # <<>>
          => /\ request.Strategy = opts.Strategy
             /\ Len(request.Items) = Cardinality(RowsWithTicker)
             /\ \A i \in RowsWithTicker :
                   LET it == request.Items[Cardinality({i2 \in RowsWithTicker : i2 <= i})]
                   IN  /\ it.Ticker = raw[i]["ticker"].s
                       /\ DOMAIN it.Data = DOMAIN raw[i] \ {"ticker"}
                       /\ \A k \in DOMAIN it.Data : it.Data[k] = raw[i][k])
    /\ [][raw' = raw]_vars

\* of two rows one has a non-string ticker and is left out of the request
C29_Witness ==
    /\ Len(raw) = 2
    /\ raw[1] = [ticker |-> Flt(100), price |-> AltPrice]
    /\ raw[2] = [ticker |-> Str(<<"A">>), price |-> AltPrice]
    /\ request # <<>>
    /\ request.Items = <<[Ticker |-> <<"A">>, Data |-> [price |-> AltPrice]]>>

\* C28: a run returns a mode error only after it has fetched and evaluated,
\* both with success; and when the fetch or the evaluation fails, Run returns
\* that failure.  (opts.Mode is read for the first time at the mode switch.)
C28_ModeValidatedLast ==
    /\ ret \in ModeErrors
       => /\ calls = <<"Get", "Fetch", "Eval">>
          /\ fetchErr = "nil" /\ evalErr = "nil"
          /\ request # <<>> /\ post # NoPost
    /\ fetchErr = "error" => (ret = "fetch error" /\ calls = <<"Get", "Fetch">>)
    /\ evalErr \notin {"", "nil"} => (ret = evalErr /\ ret \notin ModeErrors)

\* a run in gui mode has fetched rows and got an answer of the strategy
\* service before it returned the mode error
C28_Witness ==
    /\ pc = "done"
    /\ opts.Mode = "gui"
    /\ ret = "gui mode not yet implemented"
    /\ calls = <<"Get", "Fetch", "Eval">>
    /\ raw # <<>> /\ post.status = 200 /\ evals # <<>>

\* C30: the tickers splitCSV returns are, in their order in the string, its
\* maximal comma-free stretches that hold something other than spaces, each
\* from its first to its last character that is no space; so there are none
\* for a string of commas and spaces only, a duplicate stays, and no
\* character is changed.
C30_SplitCSV ==
    Has(csvOut)
    => LET n == Len(csvIn)
           out == Val(csvOut)
           Bounds == {0, n + 1} \cup {i \in 1..n : csvIn[i] = ","}
           EndOf(a) == CHOOSE b \in Bounds : b > a /\ \A c \in Bounds : c > a => b <= c
           NonSpace(a) == {i \in (a + 1)..(EndOf(a) - 1) : csvIn[i] # " "}
           Kept == {a \in Bounds \ {n + 1} : NonSpace(a) # {}}
           First(a) == CHOOSE i \in NonSpace(a) : \A j \in NonSpace(a) : i <= j
           Last(a) == CHOOSE i \in NonSpace(a) : \A j \in NonSpace(a) : j <= i
       IN  /\ Len(out) = Cardinality(Kept)
           /\ \A a \in Kept :
                 out[Cardinality({a2 \in Kept : a2 <= a})] = SubSeq(csvIn, First(a), Last(a))
           /\ (\A i \in 1..n : csvIn[i] \in {",", " "}) => out = <<>>

\* "a,a" gives the ticker a twice, in lower case
C30_Witness ==
    /\ csvIn = <<"a", ",", "a">>
    /\ csvOut = Some(<<(<<"a">>), (<<"a">>)>>)

====
